---- MODULE Spec2Model ----
(***************************************************************************)
(* A model of src/main.py: the MazeGrid class (construction, is_valid,    *)
(* get_neighbors), manhattan_distance, a_star_search and                   *)
(* reconstruct_path.  Cells are (row, col) pairs counted from 0 as in the  *)
(* source; the matrix is a sequence of rows, so the marker of cell (r, c)  *)
(* is grid[r + 1][c + 1].                                                  *)
(***************************************************************************)
EXTENDS Integers, Sequences, FiniteSets, TLC

VARIABLES
    grid,           \* the matrix handed to MazeGrid(...)            (self.grid)
    rows,           \* self.rows
    cols,           \* self.cols
    start,          \* self.start, NoPos while unassigned
    goal,           \* self.goal, NoPos while unassigned
    raised,         \* the exception raised by the constructor, "" if none
    pc,             \* where the program is
    run,            \* number of a_star_search calls begun on this maze
    open_set,       \* the heap, as the set of its (f, counter, position) entries
    counter,        \* the sequence number of the last push
    came_from,      \* dict: position -> predecessor
    g_score,        \* defaultdict: keys hold a finite cost, other keys read as inf
    f_score,        \* defaultdict, likewise
    open_set_hash,  \* the set of positions marked as being in open_set
    current,        \* the position popped last
    current_f,      \* the priority it was popped with
    todo,           \* the neighbours of current the for loop has yet to visit
    result,         \* what the last finished call returned
    prev_result,    \* what the call before it returned
    pred_writes,    \* history: how often this call has assigned came_from[c]
    q_pos,          \* the argument of the get_neighbors call made by the caller
    q_result,       \* the list that call returned
    q_read          \* the positions whose marker that call read

vars == <<grid, rows, cols, start, goal, raised, pc, run, open_set, counter,
          came_from, g_score, f_score, open_set_hash, current, current_f, todo,
          result, prev_result, pred_writes, q_pos, q_result, q_read>>

mazeVars == <<grid, rows, cols, start, goal, raised>>
searchVars == <<open_set, counter, came_from, g_score, f_score, open_set_hash,
                current, current_f, todo, result, prev_result, pred_writes, run>>
queryVars == <<q_pos, q_result, q_read>>

----------------------------------------------------------------------------
(* Bounds of the model. *)

MaxRows == 3
MaxCols == 3
MaxCells == 6
MaxRuns == 2

----------------------------------------------------------------------------
(* Values. *)

Markers == {"S", "G", "#", " "}

\* Python's None for a position
NoPos == <<>>

\* The result of a call: nothing yet, None (unreachable), or a list of cells.
Pending == [kind |-> "pending", path |-> <<>>]
Unreachable == [kind |-> "None", path |-> <<>>]
Found(p) == [kind |-> "path", path |-> p]

\* The matrices of r rows and c columns.
Matrices(r, c) == [1..r -> [1..c -> Markers]]

Dims == {d \in (0..MaxRows) \X (0..MaxCols) :
            /\ d[1] * d[2] <= MaxCells
            /\ (d[1] = 0 => d[2] = 0)}

\* The scenarios of section 8 of the specification.
Scenario3x3 == << <<"S", " ", "#">>,
                  <<"#", " ", "#">>,
                  <<"#", " ", "G">> >>

ScenarioWallRow == << <<"S", " ", " ">>,
                      <<"#", "#", "#">>,
                      <<" ", " ", "G">> >>

ScenarioEnclosed == << <<"S", "#", " ">>,
                       <<"#", "G", "#">>,
                       <<" ", "#", " ">> >>

\* A grid on which a cell waiting in open_set is reached again at a lower
\* cost, and one on which a cell already popped is.
ScenarioImproved == << <<" ", "S", " ">>,
                       <<" ", "#", " ">>,
                       <<" ", " ", " ">>,
                       <<"#", " ", " ">>,
                       <<"G", " ", " ">> >>

ScenarioRepush == << <<" ", "#", " ", " ", " ", " ", "#", "#">>,
                     <<" ", " ", " ", " ", " ", " ", "#", "G">>,
                     <<"S", "#", " ", "#", " ", "#", " ", " ">>,
                     <<" ", "#", " ", " ", " ", "#", "#", " ">>,
                     <<" ", " ", " ", " ", " ", " ", " ", " ">>,
                     <<" ", " ", " ", " ", " ", "#", "#", "#">> >>

ScenarioGrids == {Scenario3x3, ScenarioWallRow, ScenarioEnclosed,
                  ScenarioImproved, ScenarioRepush}

InputGrids == (UNION {Matrices(d[1], d[2]) : d \in Dims}) \cup ScenarioGrids

----------------------------------------------------------------------------
(* MazeGrid *)

\* for r in range(R): for c in range(C): if g[r][c] == symbol: return (r, c)
RECURSIVE ScanFrom(_, _, _, _, _, _)
ScanFrom(g, R, C, symbol, r, c) ==
    IF r >= R THEN NoPos
    ELSE IF c >= C THEN ScanFrom(g, R, C, symbol, r + 1, 0)
    ELSE IF g[r + 1][c + 1] = symbol THEN <<r, c>>
    ELSE ScanFrom(g, R, C, symbol, r, c + 1)

\* the scan without its early return: the last match is the one returned
find_positionLast(g, R, C, symbol) ==
    LET hits == {p \in (0..(R - 1)) \X (0..(C - 1)) : g[p[1] + 1][p[2] + 1] = symbol}
    IN  IF hits = {} THEN NoPos
        ELSE CHOOSE p \in hits :
                \A q \in hits : q[1] < p[1] \/ (q[1] = p[1] /\ q[2] <= p[2])

find_position(g, R, C, symbol) == ScanFrom(g, R, C, symbol, 0, 0)

\* a truth test that takes the pair (0, 0) for false
TruthyNonZero(p) == p # NoPos /\ p # <<0, 0>>

\* Python truth value of an Optional[Tuple[int, int]]: None is false, a pair is
\* a non-empty tuple and so true, (0, 0) included.
Truthy(p) == p # NoPos

MazeGridInit ==
    /\ pc = "new"
    /\ LET R == Len(grid)
           C == IF grid # <<>> THEN Len(grid[1]) ELSE 0
           start_pos == find_position(grid, R, C, "S")
           goal_pos == find_position(grid, R, C, "G")
       IN  /\ rows' = R
           /\ cols' = C
           /\ IF ~Truthy(start_pos)
                THEN /\ raised' = "ValueError: Start position 'S' not found in maze!"
                     /\ pc' = "error"
                     /\ UNCHANGED <<start, goal>>
              ELSE IF ~Truthy(goal_pos)
                THEN /\ raised' = "ValueError: Goal position 'G' not found in maze!"
                     /\ pc' = "error"
                     /\ UNCHANGED <<start, goal>>
              ELSE /\ start' = start_pos
                   /\ goal' = goal_pos
                   /\ pc' = "ready"
                   /\ UNCHANGED raised
    /\ UNCHANGED <<grid, searchVars, queryVars>>

\* self.grid[row][col] with Python's list indexing: an index in -len..-1
\* counts from the end, an index outside -len..len-1 raises IndexError.
PyIndex(n, i) == IF 0 <= i /\ i < n THEN i + 1
                 ELSE IF -n <= i /\ i < 0 THEN n + i + 1
                 ELSE 0

GridAt(row, col) ==
    LET i == PyIndex(Len(grid), row)
    IN  IF i = 0 THEN "IndexError"
        ELSE LET j == PyIndex(Len(grid[i]), col)
             IN  IF j = 0 THEN "IndexError" ELSE grid[i][j]

\* is_valid without the lower bounds: row < self.rows and col < self.cols
is_valid_traceNoLower(pos) ==
    LET row == pos[1]
        col == pos[2]
    IN  IF row < rows /\ col < cols
          THEN [ret |-> GridAt(row, col) # "#", read |-> {pos}]
          ELSE [ret |-> FALSE, read |-> {}]

\* is_valid, returning with its value the positions whose marker it read.
is_valid_trace(pos) ==
    LET row == pos[1]
        col == pos[2]
    IN  IF 0 <= row /\ row < rows /\ 0 <= col /\ col < cols
          THEN [ret |-> GridAt(row, col) # "#", read |-> {pos}]
          ELSE [ret |-> FALSE, read |-> {}]

is_valid(pos) == is_valid_trace(pos).ret

\* a last direction mistyped as (1, 1)
directionsDiagonal == << <<-1, 0>>, <<1, 0>>, <<0, -1>>, <<1, 1>> >>

directions == << <<-1, 0>>, <<1, 0>>, <<0, -1>>, <<0, 1>> >>

Candidates(pos) == [i \in 1..Len(directions) |->
                       <<pos[1] + directions[i][1], pos[2] + directions[i][2]>>]

get_neighbors(pos) == SelectSeq(Candidates(pos), is_valid)

\* The caller asks a constructed maze for the neighbours of some position,
\* inside the grid or one step outside it.
QueryPositions == ((-1)..rows) \X ((-1)..cols)

GetNeighborsCall ==
    /\ pc = "ready"
    /\ \E pos \in QueryPositions :
          /\ q_pos' = pos
          /\ q_result' = get_neighbors(pos)
          /\ q_read' = UNION {is_valid_trace(Candidates(pos)[i]).read :
                                 i \in 1..Len(directions)}
    /\ pc' = "queried"
    /\ UNCHANGED <<mazeVars, searchVars>>

----------------------------------------------------------------------------
(* The heuristic *)

Abs(x) == IF x < 0 THEN -x ELSE x

\* the squared Euclidean distance
manhattan_distanceSquared(pos1, pos2) ==
    (pos1[1] - pos2[1]) * (pos1[1] - pos2[1]) + (pos1[2] - pos2[2]) * (pos1[2] - pos2[2])

manhattan_distance(pos1, pos2) == Abs(pos1[1] - pos2[1]) + Abs(pos1[2] - pos2[2])

----------------------------------------------------------------------------
(* reconstruct_path *)

\* path.reverse() left out
ReverseForgotten(s) == s

Reverse(s) == [i \in 1..Len(s) |-> s[Len(s) + 1 - i]]

\* while current in came_from: current = came_from[current]; path.append(current)
RECURSIVE Backtrack(_, _, _)
Backtrack(cf, cur, path) ==
    IF cur \in DOMAIN cf
      THEN Backtrack(cf, cf[cur], Append(path, cf[cur]))
      ELSE path

\* path = [] in place of path = [current]
reconstruct_pathEmptyStart(cf, cur) == Reverse(Backtrack(cf, cur, <<>>))

reconstruct_path(cf, cur) == Reverse(Backtrack(cf, cur, <<cur>>))

----------------------------------------------------------------------------
(* a_star_search *)

\* Python's < on the tuples (f_score, counter, position), position a pair.
PairLess(a, b) == a[1] < b[1] \/ (a[1] = b[1] /\ a[2] < b[2])

\* entries compared by f_score alone
EntryLessByF(a, b) == a[1] < b[1]

\* entries compared the wrong way round: the largest is popped
EntryLessReversed(a, b) ==
    \/ b[1] < a[1]
    \/ a[1] = b[1] /\ b[2] < a[2]
    \/ a[1] = b[1] /\ a[2] = b[2] /\ PairLess(b[3], a[3])

EntryLess(a, b) ==
    \/ a[1] < b[1]
    \/ a[1] = b[1] /\ a[2] < b[2]
    \/ a[1] = b[1] /\ a[2] = b[2] /\ PairLess(a[3], b[3])

\* heappop returns an entry than which no entry of the heap is smaller ...
Smallest(heap) == {e \in heap : \A o \in heap : ~EntryLess(o, e)}

\* the smallest entry read (open_set[0]) and left in the heap
HeapWithoutKept(heap, e) == heap

\* ... and removes it from the heap.
HeapWithout(heap, e) == heap \ {e}

\* a plain dict read with a default of 0 in place of infinity
LessThanScoreZero(t, d, k) == k \in DOMAIN d /\ t < d[k]

\* the comparison written <= in place of <
LessThanScoreOrEqual(t, d, k) == k \notin DOMAIN d \/ t <= d[k]

\* the comparison left out: every neighbour is recorded
LessThanScoreAlways(t, d, k) == TRUE

\* A defaultdict(lambda: float('inf')) read at key k, against candidate cost t:
\* t < d[k].
LessThanScore(t, d, k) == k \notin DOMAIN d \/ t < d[k]

\* the tables kept from one call to the next
SearchInitKeepsTables ==
    /\ \/ pc = "ready"
       \/ pc = "returned" /\ run < MaxRuns
    /\ run' = run + 1
    /\ prev_result' = result
    /\ result' = Pending
    /\ pred_writes' = <<>>
    /\ counter' = 0
    /\ open_set' = {<<0, 0, start>>}
    /\ came_from' = came_from
    /\ g_score' = (start :> 0) @@ g_score
    /\ f_score' = (start :> manhattan_distance(start, goal)) @@ f_score
    /\ open_set_hash' = {start}
    /\ current' = NoPos
    /\ current_f' = 0
    /\ todo' = <<>>
    /\ pc' = "loop"
    /\ UNCHANGED <<mazeVars, queryVars>>

\* Lines 124-145: the call begins, every table is created afresh.
SearchInit ==
    /\ \/ pc = "ready"
       \/ pc = "returned" /\ run < MaxRuns
    /\ run' = run + 1
    /\ prev_result' = result
    /\ result' = Pending
    /\ pred_writes' = <<>>
    /\ counter' = 0
    /\ open_set' = {<<0, 0, start>>}
    /\ came_from' = <<>>
    /\ g_score' = (start :> 0)
    /\ f_score' = (start :> manhattan_distance(start, goal))
    /\ open_set_hash' = {start}
    /\ current' = NoPos
    /\ current_f' = 0
    /\ todo' = <<>>
    /\ pc' = "loop"
    /\ UNCHANGED <<mazeVars, queryVars>>

\* Lines 147-157: the loop test holds, the smallest entry is popped, and the
\* call returns the path when it is the goal's; otherwise the for loop begins.
Pop ==
    /\ pc = "loop"
    /\ open_set # {}
    /\ \E e \in Smallest(open_set) :
          /\ open_set' = HeapWithout(open_set, e)
          /\ current_f' = e[1]
          /\ current' = e[3]
          /\ open_set_hash' = open_set_hash \ {e[3]}
          /\ IF e[3] = goal
               THEN /\ result' = Found(reconstruct_path(came_from, e[3]))
                    /\ todo' = <<>>
                    /\ pc' = "returned"
               ELSE /\ todo' = get_neighbors(e[3])
                    /\ pc' = IF get_neighbors(e[3]) = <<>> THEN "loop" ELSE "for"
                    /\ UNCHANGED result
    /\ UNCHANGED <<mazeVars, queryVars, counter, came_from, g_score, f_score,
                   prev_result, pred_writes, run>>

\* the step cost left out
tentative_gFlat(g) == g

\* Line 160: tentative_g_score = g_score[current] + 1
tentative_g(g) == g + 1

\* the cost so far left out of f_score
f_ofHeuristicOnly(t, neighbor) == manhattan_distance(neighbor, goal)

\* Line 167: f_score[neighbor] = tentative_g_score + manhattan_distance(neighbor, goal)
f_of(t, neighbor) == t + manhattan_distance(neighbor, goal)

\* the membership test left out: every improved neighbour is pushed
NotInOpenSetAlways(neighbor, hash) == TRUE

\* Line 170: neighbor not in open_set_hash
NotInOpenSet(neighbor, hash) == neighbor \notin hash

\* the increment left out
NextCounterSame(c) == c

\* Line 171: counter += 1
NextCounter(c) == c + 1

\* the entry pushed with priority 0, as the first entry is
EntryZero(fs, c, neighbor) == <<0, c, neighbor>>

\* Line 172: the entry pushed, (f_score[neighbor], counter, neighbor)
Entry(fs, c, neighbor) == <<fs[neighbor], c, neighbor>>

\* Lines 157-173: one iteration of the for loop.
Relax ==
    /\ pc = "for"
    /\ todo # <<>>
    /\ LET neighbor == Head(todo)
           tentative_g_score == tentative_g(g_score[current])
       IN  IF LessThanScore(tentative_g_score, g_score, neighbor)
             THEN /\ came_from' = (neighbor :> current) @@ came_from
                  /\ pred_writes' = (neighbor :> (IF neighbor \in DOMAIN pred_writes
                                                    THEN pred_writes[neighbor] + 1
                                                    ELSE 1)) @@ pred_writes
                  /\ g_score' = (neighbor :> tentative_g_score) @@ g_score
                  /\ f_score' = (neighbor :> f_of(tentative_g_score, neighbor)) @@ f_score
                  /\ IF NotInOpenSet(neighbor, open_set_hash)
                       THEN /\ counter' = NextCounter(counter)
                            /\ open_set' = open_set \cup
                                              {Entry(f_score', counter', neighbor)}
                            /\ open_set_hash' = open_set_hash \cup {neighbor}
                       ELSE UNCHANGED <<counter, open_set, open_set_hash>>
             ELSE UNCHANGED <<came_from, pred_writes, g_score, f_score, counter,
                              open_set, open_set_hash>>
    /\ todo' = Tail(todo)
    /\ pc' = IF Tail(todo) = <<>> THEN "loop" ELSE "for"
    /\ UNCHANGED <<mazeVars, queryVars, current, current_f, result, prev_result, run>>

\* Lines 147 and 176: the loop test fails, the call returns None.
Exhausted ==
    /\ pc = "loop"
    /\ open_set = {}
    /\ result' = Unreachable
    /\ pc' = "returned"
    /\ UNCHANGED <<mazeVars, queryVars, open_set, counter, came_from, g_score,
                   f_score, open_set_hash, current, current_f, todo, prev_result,
                   pred_writes, run>>

----------------------------------------------------------------------------

Init ==
    /\ grid \in InputGrids
    /\ rows = 0
    /\ cols = 0
    /\ start = NoPos
    /\ goal = NoPos
    /\ raised = ""
    /\ pc = "new"
    /\ run = 0
    /\ open_set = {}
    /\ counter = 0
    /\ came_from = <<>>
    /\ g_score = <<>>
    /\ f_score = <<>>
    /\ open_set_hash = {}
    /\ current = NoPos
    /\ current_f = 0
    /\ todo = <<>>
    /\ result = Pending
    /\ prev_result = Pending
    /\ pred_writes = <<>>
    /\ q_pos = NoPos
    /\ q_result = <<>>
    /\ q_read = {}

\* a_star_search handed a maze whose start and goal fields the caller has set
\* itself, to any two cells that are not walls, the same cell included (the
\* constructor always yields two different cells).
OpenOrWall == {"#", " "}

DirectGrids == UNION {[1..d[1] -> [1..d[2] -> OpenOrWall]] :
                         d \in {e \in Dims : e[1] > 0 /\ e[2] > 0}}

InitDirect ==
    /\ grid \in DirectGrids
    /\ rows = Len(grid)
    /\ cols = Len(grid[1])
    /\ start \in {p \in (0..(rows - 1)) \X (0..(cols - 1)) : grid[p[1] + 1][p[2] + 1] # "#"}
    /\ goal \in {p \in (0..(rows - 1)) \X (0..(cols - 1)) : grid[p[1] + 1][p[2] + 1] # "#"}
    /\ raised = ""
    /\ pc = "ready"
    /\ run = 0
    /\ open_set = {}
    /\ counter = 0
    /\ came_from = <<>>
    /\ g_score = <<>>
    /\ f_score = <<>>
    /\ open_set_hash = {}
    /\ current = NoPos
    /\ current_f = 0
    /\ todo = <<>>
    /\ result = Pending
    /\ prev_result = Pending
    /\ pred_writes = <<>>
    /\ q_pos = NoPos
    /\ q_result = <<>>
    /\ q_read = {}

NextGrid == MazeGridInit \/ GetNeighborsCall

SpecGrid == Init /\ [][NextGrid]_vars

Next == MazeGridInit \/ SearchInit \/ Pop \/ Relax \/ Exhausted

Spec == Init /\ [][Next]_vars

\* One call runs to completion: nothing suspends or cancels it.
FairSpec == Spec /\ WF_vars(Next)

NextSearch == SearchInit \/ Pop \/ Relax \/ Exhausted

SpecDirect == InitDirect /\ [][NextSearch]_vars

----------------------------------------------------------------------------
(* What the claims are stated with: the grid read directly, independently  *)
(* of is_valid and get_neighbors.                                          *)

Cells == (0..(rows - 1)) \X (0..(cols - 1))

MarkerOf(c) == grid[c[1] + 1][c[2] + 1]

Open(c) == c \in Cells /\ MarkerOf(c) # "#"

\* a and b differ by exactly 1 in exactly one coordinate
OneStep(a, b) ==
    \/ a[1] = b[1] /\ (a[2] - b[2]) \in {-1, 1}
    \/ a[2] = b[2] /\ (a[1] - b[1]) \in {-1, 1}

\* Breadth-first search by levels: the number of steps of a shortest route
\* from the cells of front to target, -1 when there is none.
RECURSIVE BfsLevels(_, _, _, _)
BfsLevels(front, seen, target, d) ==
    IF target \in front THEN d
    ELSE LET nxt == {c \in Cells \ seen : Open(c) /\ \E f \in front : OneStep(f, c)}
         IN  IF nxt = {} THEN -1
             ELSE BfsLevels(nxt, seen \cup nxt, target, d + 1)

BfsDistance(a, b) == BfsLevels({a}, {a}, b, 0)

HasMarker(m) == \E r \in 1..Len(grid) : \E c \in 1..Len(grid[r]) : grid[r][c] = m

RowMajorLeq(a, b) == a[1] < b[1] \/ (a[1] = b[1] /\ a[2] <= b[2])

Returned == pc = "returned"

ReturnedPath == pc = "returned" /\ result.kind = "path"

----------------------------------------------------------------------------
(* The claims *)

\* C1: whenever a_star_search returns a path, its number of edges,
\* len(path) - 1, is the breadth-first shortest distance from start to goal.
C1_ShortestLength ==
    ReturnedPath => Len(result.path) - 1 = BfsDistance(start, goal)

\* a path was returned that walls made longer than the Manhattan distance
C1_Witness ==
    /\ ReturnedPath
    /\ Len(result.path) - 1 = BfsDistance(start, goal)
    /\ Len(result.path) - 1 > manhattan_distance(start, goal)

\* C2: a returned path begins at start, ends at goal, moves by one orthogonal
\* step between consecutive cells, and holds only in-bounds cells that are
\* not walls.
C2_PathWellFormed ==
    ReturnedPath =>
        /\ Len(result.path) >= 1
        /\ result.path[1] = start
        /\ result.path[Len(result.path)] = goal
        /\ \A i \in 1..(Len(result.path) - 1) :
              OneStep(result.path[i], result.path[i + 1])
        /\ \A i \in 1..Len(result.path) : Open(result.path[i])

\* a path of at least four cells that turns a corner was returned
C2_Witness ==
    /\ ReturnedPath
    /\ Len(result.path) >= 4
    /\ result.path[1][1] # result.path[Len(result.path)][1]
    /\ result.path[1][2] # result.path[Len(result.path)][2]

\* C3: a_star_search returns None exactly when no route of orthogonal steps
\* through non-wall cells joins start to goal, a path whenever there is one,
\* and nothing else.
C3_NoneIffUnreachable ==
    Returned =>
        /\ result.kind \in {"path", "None"}
        /\ raised = ""
        /\ (result.kind = "None" <=> BfsDistance(start, goal) = -1)

\* the wall-row scenario ended with None
C3_Witness ==
    /\ Returned
    /\ grid = ScenarioWallRow
    /\ result = Unreachable

\* C4: every call of a_star_search that enters its loop returns.
C4_Terminates == (pc = "loop") ~> (pc = "returned")

\* a call returned after pushing several entries
C4_Witness ==
    /\ Returned
    /\ counter >= 3

C6_Construction ==
    pc # "new" =>
        /\ (pc = "error" <=>
              \/ Len(grid) = 0
              \/ Len(grid[1]) = 0
              \/ ~HasMarker("S")
              \/ ~HasMarker("G"))
        /\ (pc = "error" <=> raised # "")
        /\ (pc # "error" =>
              /\ start # goal
              /\ Open(start)
              /\ Open(goal))

\* a matrix with a start marker and no goal marker was refused
C6_Witness ==
    /\ pc = "error"
    /\ HasMarker("S")
    /\ ~HasMarker("G")

\* C7: a search run with start equal to goal returns the path of that one cell.
C7_StartIsGoal ==
    Returned /\ start = goal => result = Found(<<start>>)

C7_Witness ==
    /\ Returned
    /\ start = goal
    /\ result = Found(<<start>>)

\* C8: get_neighbors(pos) is the list of the up, down, left and right
\* neighbours of pos, in that order, that lie in the grid and are not walls,
\* and it reads the marker of no position outside the grid.
C8_Neighbors ==
    pc = "queried" =>
        /\ q_result = SelectSeq(<< <<q_pos[1] - 1, q_pos[2]>>,
                                   <<q_pos[1] + 1, q_pos[2]>>,
                                   <<q_pos[1], q_pos[2] - 1>>,
                                   <<q_pos[1], q_pos[2] + 1>> >>, Open)
        /\ q_read \subseteq Cells

\* the neighbours of a position outside the grid were asked for, and one of
\* them is a passable cell of the grid
C8_Witness ==
    /\ pc = "queried"
    /\ q_pos \notin Cells
    /\ Len(q_result) = 1

\* C9: with several 'S' or several 'G' in the matrix construction succeeds and
\* start (goal) is the first 'S' ('G') in row-major order.
C9_FirstOccurrence ==
    pc # "new" /\ HasMarker("S") /\ HasMarker("G") =>
        /\ pc # "error"
        /\ MarkerOf(start) = "S"
        /\ MarkerOf(goal) = "G"
        /\ \A c \in Cells : MarkerOf(c) = "S" => RowMajorLeq(start, c)
        /\ \A c \in Cells : MarkerOf(c) = "G" => RowMajorLeq(goal, c)

\* a matrix with two start markers and two goal markers was accepted
C9_Witness ==
    /\ pc = "ready"
    /\ Cardinality({c \in Cells : MarkerOf(c) = "S"}) >= 2
    /\ Cardinality({c \in Cells : MarkerOf(c) = "G"}) >= 2

\* C10: on the grid S.# / #.# / #.G the search returns
\* (0,0),(0,1),(1,1),(2,1),(2,2).
C10_Scenario ==
    Returned /\ grid = Scenario3x3 =>
        result = Found(<< <<0, 0>>, <<0, 1>>, <<1, 1>>, <<2, 1>>, <<2, 2>> >>)

C10_Witness ==
    /\ Returned
    /\ grid = Scenario3x3
    /\ Len(result.path) - 1 = 4

\* C11 as stated: during one call came_from[c] is assigned at most once for
\* every cell c.
C11_WrittenOnce == \A c \in DOMAIN pred_writes : pred_writes[c] <= 1

\* C11 as amended: came_from[c] may be assigned several times during one
\* call, and every step that assigns it assigns the cell just popped and
\* strictly lowers g_score[c].
C11_WrittenOnImprovement ==
    [][\A c \in DOMAIN pred_writes' :
          (/\ run' = run
           /\ (c \notin DOMAIN pred_writes \/ pred_writes'[c] > pred_writes[c]))
          => /\ came_from'[c] = current
             /\ (c \notin DOMAIN g_score \/ g_score'[c] < g_score[c])]_vars

\* a cell has had its predecessor assigned twice, the second time to another cell
C11_Witness ==
    \E c \in DOMAIN pred_writes :
        /\ pred_writes[c] >= 2
        /\ g_score[c] = g_score[came_from[c]] + 1

\* The walk along came_from from c reaches start within n links.
RECURSIVE LeadsToStart(_, _)
LeadsToStart(c, n) ==
    IF c = start THEN TRUE
    ELSE IF n = 0 \/ c \notin DOMAIN came_from THEN FALSE
    ELSE LeadsToStart(came_from[c], n - 1)

\* C12: in every state start has no came_from entry and the came_from links
\* from every cell that has one lead to start without repeating a cell (so
\* came_from has no cycle); the path returned at the goal's pop begins with start.
C12_Acyclic ==
    /\ start \notin DOMAIN came_from
    /\ \A c \in DOMAIN came_from :
          LeadsToStart(c, Cardinality(DOMAIN came_from))
    /\ (ReturnedPath => result.path[1] = start)

\* a path was rebuilt from a came_from in which an entry had been overwritten
C12_Witness ==
    /\ ReturnedPath
    /\ Len(result.path) >= 4
    /\ \E c \in DOMAIN pred_writes : pred_writes[c] >= 2

\* C13: between the initialisation and the first pop g_score[start] = 0,
\* f_score[start] is the Manhattan distance to goal, open_set_hash = {start}
\* and open_set holds the one entry (f_score[start], 0, start).
C13_InitialEntry ==
    pc = "loop" /\ current = NoPos =>
        /\ g_score[start] = 0
        /\ f_score[start] = manhattan_distance(start, goal)
        /\ open_set_hash = {start}
        /\ open_set = {<<f_score[start], 0, start>>}

\* the (f, sequence) order of the entries
SeqLess(a, b) == a[1] < b[1] \/ (a[1] = b[1] /\ a[2] < b[2])

\* C14: no entry carries a sequence number above the last one given out, every
\* push gives out one more than the last, so the entries of open_set differ
\* pairwise in their sequence number and in (f, sequence); every pop removes
\* the one entry that is least in (f, sequence), which among entries of equal
\* f is the one pushed first.
C14_Sequence ==
    /\ [](/\ \A e \in open_set : e[2] <= counter
          /\ \A a, b \in open_set : a # b => a[2] # b[2])
    /\ [][run' = run =>
            /\ counter' >= counter
            /\ \A e \in open_set' \ open_set :
                  /\ e[2] = counter'
                  /\ counter' = counter + 1
                  /\ \A o \in open_set : o[2] < e[2]
            /\ \A e \in open_set \ open_set' :
                  /\ current' = e[3]
                  /\ current_f' = e[1]
                  /\ open_set' = open_set \ {e}
                  /\ \A o \in open_set \ {e} : SeqLess(e, o)]_vars

\* an entry has just been popped ahead of a later-pushed entry of the same f
C14_Witness ==
    /\ pc = "for"
    /\ todo = get_neighbors(current)
    /\ \E o \in open_set : o[1] = current_f /\ o[2] > 1

\* C15: every cell with a finite g_score has f_score = g_score + Manhattan
\* distance to goal; during a call g_score[c] never rises, and g_score[c] and
\* came_from[c] change only in a step in which g_score[current] + 1 is less
\* than the g_score[c] before it, and which sets g_score[c] to that cost.
C15_Costs ==
    /\ [](/\ DOMAIN f_score = DOMAIN g_score
          /\ \A c \in DOMAIN g_score :
                f_score[c] = g_score[c] + manhattan_distance(c, goal))
    /\ [][run' = run =>
            /\ \A c \in DOMAIN g_score :
                  c \in DOMAIN g_score' /\ g_score'[c] <= g_score[c]
            /\ \A c \in DOMAIN g_score' :
                  (\/ c \notin DOMAIN g_score
                   \/ g_score'[c] # g_score[c]
                   \/ c \in DOMAIN came_from' /\ c \notin DOMAIN came_from
                   \/ c \in DOMAIN came_from /\ came_from'[c] # came_from[c])
                  => /\ (c \notin DOMAIN g_score \/ g_score[current] + 1 < g_score[c])
                     /\ g_score'[c] = g_score[current] + 1
                     /\ came_from'[c] = current]_vars

\* a cell's cost has been lowered and its f_score follows it
C15_Witness ==
    \E c \in DOMAIN pred_writes :
        /\ pred_writes[c] >= 2
        /\ f_score[c] = g_score[c] + manhattan_distance(c, goal)
        /\ \E e \in open_set : e[3] = c /\ e[1] > f_score[c]

\* C16: for every passable cell from which goal can be reached the Manhattan
\* distance to goal is at least 0 and at most the shortest distance, and the
\* Manhattan distances to goal of two orthogonally adjacent cells differ by at
\* most 1.  (The values depend on the maze alone, so they are looked at once
\* the maze is constructed and again when a call has returned.)
C16_Heuristic ==
    pc \in {"ready", "returned"} =>
        /\ \A c \in Cells :
              Open(c) /\ BfsDistance(c, goal) # -1 =>
                  /\ manhattan_distance(c, goal) >= 0
                  /\ manhattan_distance(c, goal) <= BfsDistance(c, goal)
        /\ \A a, b \in Cells :
              OneStep(a, b) =>
                  (manhattan_distance(a, goal) - manhattan_distance(b, goal))
                      \in {-1, 0, 1}

\* the search gave a cell an estimate below its true distance to goal
C16_Witness ==
    /\ ReturnedPath
    /\ \E c \in DOMAIN f_score :
          /\ f_score[c] - g_score[c] = manhattan_distance(c, goal)
          /\ manhattan_distance(c, goal) < BfsDistance(c, goal)

\* C17: no step of a_star_search changes the maze (matrix, rows, cols, start,
\* goal), whatever the call returns, and every call begins with came_from
\* empty and with cost tables, open_set and open_set_hash holding start alone.
C17_GridUnchanged ==
    [][(pc \in {"ready", "loop", "for", "returned"}) =>
          /\ run' # run =>
                /\ came_from' = <<>>
                /\ DOMAIN g_score' = {start}
                /\ g_score'[start] = 0
                /\ DOMAIN f_score' = {start}
                /\ open_set_hash' = {start}
                /\ Cardinality(open_set') = 1
                /\ \A e \in open_set' : e[3] = start /\ e[2] = 0
                /\ counter' = 0
          /\ mazeVars' = mazeVars]_vars

\* a second call has begun, after a first that found a path, with empty tables
C17_Witness ==
    /\ run = 2
    /\ pc = "loop"
    /\ current = NoPos
    /\ prev_result.kind = "path"
    /\ Len(prev_result.path) >= 3
    /\ came_from = <<>>
    /\ grid[start[1] + 1][start[2] + 1] = "S"

\* C18: at every loop test open_set_hash is the set of the cells that have an
\* entry in open_set and no cell has two entries; a step that lowers the cost
\* of a cell that is in open_set_hash leaves open_set as it is.
C18_HashMatchesHeap ==
    /\ [](pc = "loop" =>
            /\ open_set_hash = {e[3] : e \in open_set}
            /\ Cardinality(open_set) = Cardinality(open_set_hash))
    /\ [][\A c \in open_set_hash :
            (run' = run /\ c \in DOMAIN g_score /\ g_score'[c] < g_score[c])
                => open_set' = open_set]_vars

\* at a loop test an entry waits with a priority above its cell's f_score
C18_Witness ==
    /\ pc = "loop"
    /\ open_set_hash = {e[3] : e \in open_set}
    /\ \E e \in open_set : e[2] > 0 /\ e[1] > f_score[e[3]]

\* C19: when a path is returned its number of edges is g_score[goal], and
\* every cell of it but the first has the cell before it as came_from and a
\* g_score one above that cell's.
C19_PathCost ==
    ReturnedPath =>
        /\ Len(result.path) - 1 = g_score[goal]
        /\ \A i \in 2..Len(result.path) :
              /\ came_from[result.path[i]] = result.path[i - 1]
              /\ g_score[result.path[i]] = g_score[result.path[i - 1]] + 1

\* a path was returned by a call that had pushed some cell twice
C19_Witness ==
    /\ ReturnedPath
    /\ Len(result.path) - 1 = g_score[goal]
    /\ counter > Cardinality(DOMAIN came_from)

\* C20: every entry pushed inside the loop (sequence number above 0) has,
\* while it is in open_set, a priority at least the f_score of its cell.
C20_PriorityNotBelow ==
    \A e \in open_set : e[2] > 0 => e[1] >= f_score[e[3]]

\* an entry's priority exceeds the f_score of its cell by 2 or more
C20_Witness ==
    \E e \in open_set : e[2] > 0 /\ e[1] >= f_score[e[3]] + 2

====
